---------------------------- MODULE Spec2Model ----------------------------
(***************************************************************************)
(* Model of irfanali786-a/infraeng-interview:                              *)
(*   coding/json_validator.py      load -> filter -> POST -> extract keys  *)
(*   terraform/modules/autoscaling/refresh_lambda.py   instance refresh    *)
(***************************************************************************)
EXTENDS Integers, Sequences, FiniteSets

VARIABLES
    pc,          \* position of main(): "load","filter","post","extract","print","done"
    source,      \* what args.input names: the path kind and the state of the file
    raw,         \* main: raw
    payload,     \* main: payload
    http,        \* what the remote end answered to the POST ("none" before it)
    resp_map,    \* main: resp_map
    valid_keys,  \* main: valid_keys
    stdout,      \* the lines printed so far
    rc,          \* main's return value, -1 while it is running
    raised,      \* the exception class that ended the try block, "none" if none
    posts,       \* the bodies of the HTTP POSTs sent, in order
    stages,      \* the stages entered, in order
    environ,     \* os.environ of the lambda: ASG_NAME and AWS_REGION
    lpc,         \* position of lambda_handler: "idle","client","refresh","returned"
    clients,     \* the client_kwargs of the boto3 clients made by this invocation
    calls,       \* the start_instance_refresh calls made by this invocation
    outcome,     \* how the start_instance_refresh call of this invocation ended
    result,      \* the value lambda_handler returned
    invocations  \* the number of invocations started

vars == <<pc, source, raw, payload, http, resp_map, valid_keys, stdout, rc,
          raised, posts, stages, environ, lpc, clients, calls, outcome, result,
          invocations>>

mainVars == <<pc, source, raw, payload, http, resp_map, valid_keys, stdout, rc,
              raised, posts, stages>>

lambdaVars == <<environ, lpc, clients, calls, outcome, result, invocations>>

---------------------------------------------------------------------------
(* Bounds *)

\* longest top-level list / largest top-level map given to filter_public
MaxItems == 2
\* largest response map given to extract_valid_keys
MaxKeys == 3
\* longest input and response of a whole run of main
MaxRun == 2
\* invocations of lambda_handler in one container
MaxInvocations == 2

---------------------------------------------------------------------------
(* JSON values as json.loads builds them: a tag and a Python value.  A dict *)
(* is the sequence of its (key, value) pairs in insertion order.           *)

JNull == [t |-> "null", v |-> "None"]

JBool(b) == [t |-> "bool", v |-> b]

JNum(n) == [t |-> "num", v |-> n]

JStr(s) == [t |-> "str", v |-> s]

JList(items) == [t |-> "list", v |-> items]

JDict(pairs) == [t |-> "dict", v |-> pairs]

\* a local of main() that has not been assigned yet
Unset == [t |-> "unset", v |-> "unset"]

\* isinstance(x, dict) / isinstance(x, Mapping) on a parsed JSON value
isinstance_dict(x) == x.t = "dict"

isinstance_list(x) == x.t = "list"

\* Python truth value of a parsed JSON value (what `not x` negates)
truthy(x) ==
    CASE x.t = "null" -> FALSE
      [] x.t = "bool" -> x.v
      [] x.t = "num"  -> x.v # 0
      [] x.t = "str"  -> x.v # ""
      [] x.t = "list" -> Len(x.v) > 0
      [] x.t = "dict" -> Len(x.v) > 0

\* `x is True`
is_True(x) == x.t = "bool" /\ x.v = TRUE

\* d.get(key, default) on a dict value
dict_get(d, key, default) ==
    IF \E i \in 1..Len(d.v) : d.v[i][1] = key
    THEN d.v[CHOOSE i \in 1..Len(d.v) : d.v[i][1] = key][2]
    ELSE default

---------------------------------------------------------------------------
(* filter_public *)

\* the condition of both comprehensions
NotPrivateStrict(item) ==
    isinstance_dict(item) /\ ~is_True(dict_get(item, "private", JBool(FALSE)))

not_private(item) ==
    isinstance_dict(item) /\ ~truthy(dict_get(item, "private", JBool(FALSE)))

RECURSIVE ListCompFrom(_, _)
ListCompFrom(items, i) ==
    IF i > Len(items) THEN <<>>
    ELSE (IF not_private(items[i]) THEN <<items[i]>> ELSE <<>>)
         \o ListCompFrom(items, i + 1)

\* [item for item in data if isinstance(item, dict) and not item.get("private", False)]
list_comprehension(items) == ListCompFrom(items, 1)

RECURSIVE DictCompFrom(_, _)
DictCompFrom(pairs, i) ==
    IF i > Len(pairs) THEN <<>>
    ELSE (IF not_private(pairs[i][2]) THEN <<pairs[i]>> ELSE <<>>)
         \o DictCompFrom(pairs, i + 1)

DictCompIgnoresPrivate(pairs) ==
    SelectSeq(pairs, LAMBDA p : isinstance_dict(p[2]))

\* {k: v for k, v in data.items() if isinstance(v, dict) and not v.get("private", False)}
dict_comprehension(pairs) == DictCompFrom(pairs, 1)

Returned(val) == [ok |-> TRUE, val |-> val, exc |-> "none"]

Raised(exc) == [ok |-> FALSE, val |-> Unset, exc |-> exc]

FilterPublicPassesScalars(data) ==
    IF isinstance_list(data) THEN Returned(JList(list_comprehension(data.v)))
    ELSE IF isinstance_dict(data) THEN Returned(JDict(dict_comprehension(data.v)))
    ELSE Returned(data)

filter_public(data) ==
    IF isinstance_list(data) THEN Returned(JList(list_comprehension(data.v)))
    ELSE IF isinstance_dict(data) THEN Returned(JDict(dict_comprehension(data.v)))
    ELSE Raised("ValidationError")

---------------------------------------------------------------------------
(* load_json *)

\* What open()/read()/json.load do with the source before any except clause:
\* the exception class they raise, or the parsed value.
\* path "-" reads sys.stdin and never opens a file.
read_and_parse(src) ==
    IF src.path # "-" /\ src.state = "missing" THEN Raised("FileNotFoundError")
    ELSE IF src.path # "-" /\ src.state = "denied" THEN Raised("PermissionError")
    ELSE IF src.path # "-" /\ src.state = "isdir" THEN Raised("IsADirectoryError")
    ELSE IF src.state = "undecodable" THEN Raised("UnicodeDecodeError")
    ELSE IF src.state = "malformed" THEN Raised("JSONDecodeError")
    ELSE Returned(src.val)

load_json(src) ==
    LET r == read_and_parse(src)
    IN  IF r.ok THEN r
        ELSE IF r.exc = "FileNotFoundError" THEN Raised("InputError")
        ELSE IF r.exc = "JSONDecodeError" THEN Raised("InputError")
        ELSE r

---------------------------------------------------------------------------
(* post_generate *)

\* Response.raise_for_status(): HTTPError for a 4xx or 5xx status
raise_for_status(status) == 400 <= status /\ status < 600

PostGenerateAcceptsAnyBody(payload_, answer) ==
    IF answer.kind # "response" THEN Raised("HTTPRequestError")
    ELSE IF raise_for_status(answer.status) THEN Raised("HTTPRequestError")
    ELSE IF ~answer.wellformed THEN Raised("HTTPRequestError")
    ELSE Returned(answer.body)

\* answer: what requests.post met -- a transport failure, or a response with
\* its status and its body (well-formed JSON or not)
post_generate(payload_, answer) ==
    IF answer.kind # "response" THEN Raised("HTTPRequestError")
    ELSE IF raise_for_status(answer.status) THEN Raised("HTTPRequestError")
    ELSE IF ~answer.wellformed THEN Raised("HTTPRequestError")
    ELSE IF ~isinstance_dict(answer.body) THEN Raised("HTTPRequestError")
    ELSE Returned(answer.body)

---------------------------------------------------------------------------
(* extract_valid_keys *)

\* ord() of each character of the keys used below
CodePoints(s) ==
    CASE s = "k1"  -> <<107, 49>>
      [] s = "k10" -> <<107, 49, 48>>
      [] s = "k2"  -> <<107, 50>>
      [] s = "K3"  -> <<75, 51>>
      [] s = "x"   -> <<120>>
      [] s = "y"   -> <<121>>

RECURSIVE seq_lt(_, _)
seq_lt(a, b) ==
    IF b = <<>> THEN FALSE
    ELSE IF a = <<>> THEN TRUE
    ELSE IF Head(a) # Head(b) THEN Head(a) < Head(b)
    ELSE seq_lt(Tail(a), Tail(b))

\* a < b on str: by code point, a proper prefix first
str_lt(a, b) == seq_lt(CodePoints(a), CodePoints(b))

\* one insertion of the sort: x goes after the elements that are not greater
RECURSIVE insert_sorted(_, _)
insert_sorted(x, sorted) ==
    IF sorted = <<>> THEN <<x>>
    ELSE IF str_lt(x, Head(sorted)) THEN <<x>> \o sorted
    ELSE <<Head(sorted)>> \o insert_sorted(x, Tail(sorted))

RECURSIVE SortFrom(_, _, _)
SortFrom(keys, i, acc) ==
    IF i > Len(keys) THEN acc
    ELSE SortFrom(keys, i + 1, insert_sorted(keys[i], acc))

ListSortSkipped(keys) == keys

\* list.sort() on a list of str
list_sort(keys) == SortFrom(keys, 1, <<>>)

\* isinstance(val, Mapping) and val.get("valid") is True
is_valid(val) ==
    isinstance_dict(val) /\ is_True(dict_get(val, "valid", JNull))

RECURSIVE AppendValidFrom(_, _)
AppendValidFrom(pairs, i) ==
    IF i > Len(pairs) THEN <<>>
    ELSE (IF is_valid(pairs[i][2]) THEN <<pairs[i][1]>> ELSE <<>>)
         \o AppendValidFrom(pairs, i + 1)

extract_valid_keys(response_map) ==
    list_sort(AppendValidFrom(response_map.v, 1))

---------------------------------------------------------------------------
(* Inputs *)

SeqsUpTo(S, n) == UNION {[1..k -> S] : k \in 0..n}

\* the (key, value) sequences of exactly n pairs json.loads can build: no key twice
RECURSIVE PairsOfLen(_, _, _)
PairsOfLen(K, S, n) ==
    IF n = 0 THEN {<<>>}
    ELSE {Append(e[1], <<e[2], e[3]>>) :
            e \in {q \in PairsOfLen(K, S, n - 1) \X K \X S :
                      \A i \in 1..Len(q[1]) : q[1][i][1] # q[2]}}

PairsUpTo(K, S, n) == UNION {PairsOfLen(K, S, k) : k \in 0..n}

PrivateValues ==
    {JBool(TRUE), JBool(FALSE), JNull, JNum(0), JNum(1), JStr(""), JStr("yes"),
     JList(<<>>), JDict(<<>>)}

Entries ==
    {JStr("s"), JNum(7), JNull, JList(<<JNum(1)>>),
     JDict(<<>>), JDict(<< <<"a", JNum(1)>> >>)}
    \cup {JDict(<< <<"a", JNum(2)>>, <<"private", pv>> >>) : pv \in PrivateValues}

Scalars == {JNull, JBool(TRUE), JNum(42), JStr("s")}

InputKeys == {"x", "y"}

FilterInputs ==
    Scalars
    \cup {JList(l) : l \in SeqsUpTo(Entries, MaxItems)}
    \cup {JDict(p) : p \in PairsUpTo(InputKeys, Entries, MaxItems)}

ResponseKeys == {"k1", "k10", "k2", "K3"}

ValidValues == {JBool(TRUE), JBool(FALSE), JNum(1), JStr("true")}

ResponseValues ==
    {JStr("notadict"), JDict(<<>>)}
    \cup {JDict(<< <<"valid", vv>> >>) : vv \in ValidValues}

ResponseMaps ==
    {JDict(p) : p \in PairsUpTo(ResponseKeys, ResponseValues, MaxKeys)}

RunEntries ==
    {JStr("s"), JDict(<< <<"a", JNum(1)>> >>),
     JDict(<< <<"a", JNum(2)>>, <<"private", JBool(TRUE)>> >>),
     JDict(<< <<"a", JNum(2)>>, <<"private", JStr("yes")>> >>)}

RunInputs ==
    Scalars
    \cup {JList(l) : l \in SeqsUpTo(RunEntries, MaxRun)}
    \cup {JDict(p) : p \in PairsUpTo(InputKeys, RunEntries, MaxRun)}

Source(path, state, val) == [path |-> path, state |-> state, val |-> val]

Sources ==
    {Source("example.json", st, Unset) :
        st \in {"missing", "denied", "isdir", "undecodable", "malformed"}}
    \cup {Source("-", st, Unset) : st \in {"undecodable", "malformed"}}
    \cup {Source(path, "json", val) : path \in {"example.json", "-"}, val \in RunInputs}

RunBodies ==
    {JList(<<>>), JStr("ok"), JNull}
    \cup {JDict(p) : p \in PairsUpTo({"k1", "k2"},
              {JStr("notadict"),
               JDict(<< <<"valid", JBool(TRUE)>> >>),
               JDict(<< <<"valid", JBool(FALSE)>> >>)}, MaxRun)}

Answer(kind, status, wellformed, body) ==
    [kind |-> kind, status |-> status, wellformed |-> wellformed, body |-> body]

NoAnswer == Answer("none", 0, FALSE, Unset)

Answers ==
    {Answer(k, 0, FALSE, Unset) : k \in {"ConnectionError", "Timeout"}}
    \cup {Answer("response", st, FALSE, Unset) : st \in {200, 201, 300, 404, 500}}
    \cup {Answer("response", st, TRUE, JDict(<<>>)) : st \in {404, 500}}
    \cup {Answer("response", st, TRUE, b) : st \in {200, 201, 300}, b \in RunBodies}

---------------------------------------------------------------------------
(* main *)

RecognisedErrors == {"InputError", "ValidationError", "HTTPRequestError"}

ExitStatusAlwaysTwo(exc) == 2

\* the two except clauses of main
exit_status(exc) == IF exc \in RecognisedErrors THEN 2 ELSE 1

\* an exception leaves the try block: main returns from its except clause
Abort(exc) ==
    /\ raised' = exc
    /\ rc' = exit_status(exc)
    /\ pc' = "done"

\* raw = load_json(args.input)
Load ==
    /\ pc = "load"
    /\ stages' = Append(stages, "Loader")
    /\ LET r == load_json(source)
       IN  IF r.ok
           THEN raw' = r.val /\ pc' = "filter" /\ UNCHANGED <<rc, raised>>
           ELSE Abort(r.exc) /\ UNCHANGED raw
    /\ UNCHANGED <<source, payload, http, resp_map, valid_keys, stdout, posts>>
    /\ UNCHANGED lambdaVars

\* payload = filter_public(raw)
Filter ==
    /\ pc = "filter"
    /\ stages' = Append(stages, "Filter")
    /\ LET r == filter_public(raw)
       IN  IF r.ok
           THEN payload' = r.val /\ pc' = "post" /\ UNCHANGED <<rc, raised>>
           ELSE Abort(r.exc) /\ UNCHANGED payload
    /\ UNCHANGED <<source, raw, http, resp_map, valid_keys, stdout, posts>>
    /\ UNCHANGED lambdaVars

PostWithRetry ==
    /\ pc = "post"
    /\ stages' = Append(stages, "Poster")
    /\ \E answer \in Answers :
        /\ http' = answer
        /\ LET r == post_generate(payload, answer)
           IN  IF r.ok
               THEN /\ posts' = Append(posts, payload)
                    /\ resp_map' = r.val /\ pc' = "extract" /\ UNCHANGED <<rc, raised>>
               ELSE /\ posts' = posts \o <<payload, payload>>
                    /\ Abort(r.exc) /\ UNCHANGED resp_map
    /\ UNCHANGED <<source, raw, payload, valid_keys, stdout>>
    /\ UNCHANGED lambdaVars

\* resp_map = post_generate(args.url, payload, ...)
Post ==
    /\ pc = "post"
    /\ stages' = Append(stages, "Poster")
    /\ \E answer \in Answers :
        /\ posts' = Append(posts, payload)
        /\ http' = answer
        /\ LET r == post_generate(payload, answer)
           IN  IF r.ok
               THEN resp_map' = r.val /\ pc' = "extract" /\ UNCHANGED <<rc, raised>>
               ELSE Abort(r.exc) /\ UNCHANGED resp_map
    /\ UNCHANGED <<source, raw, payload, valid_keys, stdout>>
    /\ UNCHANGED lambdaVars

\* valid_keys = extract_valid_keys(resp_map)
Extract ==
    /\ pc = "extract"
    /\ stages' = Append(stages, "Key extractor")
    /\ valid_keys' = extract_valid_keys(resp_map)
    /\ pc' = "print"
    /\ UNCHANGED <<source, raw, payload, http, resp_map, stdout, rc, raised, posts>>
    /\ UNCHANGED lambdaVars

\* for k in valid_keys: print(k); return 0
PrintKeys ==
    /\ pc = "print"
    /\ stdout' = stdout \o valid_keys
    /\ rc' = 0
    /\ pc' = "done"
    /\ UNCHANGED <<source, raw, payload, http, resp_map, valid_keys, raised,
                   posts, stages>>
    /\ UNCHANGED lambdaVars

---------------------------------------------------------------------------
(* lambda_handler *)

\* os.environ.get of a variable that is not set
PyNone == "<None>"

\* truth value of a str or None
str_truthy(s) == s # PyNone /\ s # ""

\* a dict of str as its (key, value) pairs; d.get(key, default)
pairs_get(d, key, default) ==
    IF \E i \in 1..Len(d) : d[i][1] = key
    THEN d[CHOOSE i \in 1..Len(d) : d[i][1] = key][2]
    ELSE default

Environs ==
    [ASG_NAME : {PyNone, "", "web-asg", "api-asg"},
     AWS_REGION : {PyNone, "", "eu-west-1"}]

NoOutcome == [kind |-> "none", resp |-> <<>>, error |-> <<>>, message |-> ""]

\* how boto3.client(...) and client.start_instance_refresh(...) can end
ClientOutcomes == {"created", "NoRegionError"}

RefreshOutcomes ==
    {[kind |-> "returned", resp |-> r, error |-> <<>>, message |-> ""] :
        r \in {<< <<"InstanceRefreshId", "refresh-1">> >>,
               << <<"InstanceRefreshId", "refresh-2">> >>,
               << <<"InstanceRefreshId", "">> >>,
               <<>>}}
    \cup {[kind |-> "ClientError", resp |-> <<>>, error |-> e,
           message |-> "An error occurred"] :
        e \in {<< <<"Error", << <<"Code", "ValidationError">> >> >> >>,
               << <<"Error", << <<"Code", "InstanceRefreshInProgress">> >> >> >>,
               << <<"Error", <<>> >> >>,
               <<>>}}
    \cup {[kind |-> "Exception", resp |-> <<>>, error |-> <<>>, message |-> m] :
        m \in {"Could not connect to the endpoint URL", "Read timeout"}}

NoResult == [status |-> "none"]

AsgGuardNoneOnly(asg) == asg = PyNone

\* `if not asg`
asg_missing(asg) == ~str_truthy(asg)

\* asg = os.environ.get("ASG_NAME"); if not asg: return {...}
Invoke ==
    /\ lpc \in {"idle", "returned"}
    /\ invocations < MaxInvocations
    /\ invocations' = invocations + 1
    /\ clients' = <<>>
    /\ calls' = <<>>
    /\ outcome' = NoOutcome
    /\ IF asg_missing(environ.ASG_NAME)
       THEN /\ result' = [status |-> "error", message |-> "ASG_NAME not set"]
            /\ lpc' = "returned"
       ELSE /\ result' = NoResult
            /\ lpc' = "client"
    /\ UNCHANGED environ
    /\ UNCHANGED mainVars

\* region = os.environ.get("AWS_REGION"); client = boto3.client("autoscaling", **client_kwargs)
CreateClient ==
    /\ lpc = "client"
    /\ \E o \in ClientOutcomes :
        LET region == environ.AWS_REGION
            client_kwargs == IF str_truthy(region)
                             THEN << <<"region_name", region>> >>
                             ELSE <<>>
        IN  IF o = "created"
            THEN /\ clients' = Append(clients, client_kwargs)
                 /\ lpc' = "refresh"
                 /\ UNCHANGED <<result, outcome>>
            ELSE /\ result' = [status |-> "error", message |-> o]
                 /\ outcome' = [NoOutcome EXCEPT !.kind = "Exception", !.message = o]
                 /\ lpc' = "returned"
                 /\ UNCHANGED clients
    /\ UNCHANGED <<environ, calls, invocations>>
    /\ UNCHANGED mainVars

StartedResult(resp) ==
    LET id == pairs_get(resp, "InstanceRefreshId", PyNone)
        instance_refresh_id ==
            IF str_truthy(id) THEN id
            ELSE pairs_get(resp, "InstanceRefreshId", "unknown")
    IN  [status |-> "started", instance_refresh_id |-> instance_refresh_id,
         raw_response |-> resp]

ClientErrorResult(o) ==
    [status |-> "error", message |-> o.message,
     code |-> pairs_get(pairs_get(o.error, "Error", <<>>), "Code", PyNone)]

HandlerResultNoCode(o) ==
    IF o.kind = "returned" THEN StartedResult(o.resp)
    ELSE [status |-> "error", message |-> o.message]

\* the value lambda_handler returns for each way the call can end
handler_result(o) ==
    IF o.kind = "returned" THEN StartedResult(o.resp)
    ELSE IF o.kind = "ClientError" THEN ClientErrorResult(o)
    ELSE [status |-> "error", message |-> o.message]

\* resp = client.start_instance_refresh(...) and the return / except clauses
StartRefresh ==
    /\ lpc = "refresh"
    /\ \E o \in RefreshOutcomes :
        /\ calls' = Append(calls, [AutoScalingGroupName |-> environ.ASG_NAME,
                                   Strategy |-> "Rolling",
                                   MinHealthyPercentage |-> 90,
                                   InstanceWarmup |-> 300])
        /\ outcome' = o
        /\ result' = handler_result(o)
    /\ lpc' = "returned"
    /\ UNCHANGED <<environ, clients, invocations>>
    /\ UNCHANGED mainVars

---------------------------------------------------------------------------
(* Specifications *)

MainStart(p, src) ==
    /\ pc = p
    /\ source = src
    /\ raw = Unset
    /\ payload = Unset
    /\ http = NoAnswer
    /\ resp_map = Unset
    /\ valid_keys = <<>>
    /\ stdout = <<>>
    /\ rc = -1
    /\ raised = "none"
    /\ posts = <<>>
    /\ stages = <<>>

LambdaStart(l, env) ==
    /\ environ = env
    /\ lpc = l
    /\ clients = <<>>
    /\ calls = <<>>
    /\ outcome = NoOutcome
    /\ result = NoResult
    /\ invocations = 0

NoEnviron == [ASG_NAME |-> PyNone, AWS_REGION |-> PyNone]

\* a run of main: python -m coding.json_validator --input <source>
Init ==
    /\ \E src \in Sources : MainStart("load", src)
    /\ LambdaStart("none", NoEnviron)

Next == Load \/ Filter \/ Post \/ Extract \/ PrintKeys

Spec == Init /\ [][Next]_vars

\* filter_public applied to each parsed input
InitFilter ==
    /\ \E data \in FilterInputs :
        /\ pc = "filter"
        /\ source = Source("example.json", "json", data)
        /\ raw = data
        /\ stages = <<"Loader">>
    /\ payload = Unset
    /\ http = NoAnswer
    /\ resp_map = Unset
    /\ valid_keys = <<>>
    /\ stdout = <<>>
    /\ rc = -1
    /\ raised = "none"
    /\ posts = <<>>
    /\ LambdaStart("none", NoEnviron)

SpecFilter == InitFilter /\ [][Filter]_vars

\* extract_valid_keys applied to each response map
InitKeys ==
    /\ \E response \in ResponseMaps :
        /\ http = Answer("response", 200, TRUE, response)
        /\ resp_map = response
    /\ pc = "extract"
    /\ source = Source("example.json", "json", JList(<<>>))
    /\ raw = JList(<<>>)
    /\ payload = JList(<<>>)
    /\ posts = <<JList(<<>>)>>
    /\ stages = <<"Loader", "Filter", "Poster">>
    /\ valid_keys = <<>>
    /\ stdout = <<>>
    /\ rc = -1
    /\ raised = "none"
    /\ LambdaStart("none", NoEnviron)

SpecKeys == InitKeys /\ [][Extract]_vars

\* the lambda container: the handler invoked again and again
InitLambda ==
    /\ \E env \in Environs : LambdaStart("idle", env)
    /\ MainStart("none", Source("-", "malformed", Unset))

NextLambda == Invoke \/ CreateClient \/ StartRefresh

SpecLambda == InitLambda /\ [][NextLambda]_vars

---------------------------------------------------------------------------
(* Properties *)

\* out is the sub-sequence of in made of exactly the elements at the indices
\* kept, in their order
IsSubsequenceAt(out, in, kept) ==
    /\ Len(out) = Cardinality(kept)
    /\ \E f \in [1..Len(out) -> kept] :
        /\ \A a, b \in 1..Len(out) : a < b => f[a] < f[b]
        /\ \A a \in 1..Len(out) : out[a] = in[f[a]]

HasKey(d, key) == \E i \in 1..Len(d.v) : d.v[i][1] = key

ValueAt(d, key) == d.v[CHOOSE i \in 1..Len(d.v) : d.v[i][1] = key][2]

IsBooleanTrue(x) == x.t = "bool" /\ x.v = TRUE

\* false, null, zero, the empty string, the empty sequence, the empty mapping
IsFalsy(x) ==
    \/ x.t = "null"
    \/ x.t = "bool" /\ x.v = FALSE
    \/ x.t = "num" /\ x.v = 0
    \/ x.t = "str" /\ x.v = ""
    \/ x.t \in {"list", "dict"} /\ x.v = <<>>

\* a keyed mapping whose "private" entry is absent or not the boolean true
PublicUnlessTrue(x) ==
    x.t = "dict" /\ (HasKey(x, "private") => ~IsBooleanTrue(ValueAt(x, "private")))

\* a keyed mapping whose "private" entry is absent or falsy
PublicUnlessTruthy(x) ==
    x.t = "dict" /\ (HasKey(x, "private") => IsFalsy(ValueAt(x, "private")))

FilterReturned == pc = "post" /\ raised = "none"

PairSet(d) == {d.v[i] : i \in 1..Len(d.v)}

KeySet(d) == {d.v[i][1] : i \in 1..Len(d.v)}

\* C1 as stated: for a top-level sequence filter_public returns the
\* order-preserving sub-sequence of exactly the elements that are keyed mappings
\* whose "private" entry is absent or anything but the boolean true.
C1_AsStated ==
    (FilterReturned /\ raw.t = "list") =>
        /\ payload.t = "list"
        /\ IsSubsequenceAt(payload.v, raw.v,
               {i \in 1..Len(raw.v) : PublicUnlessTrue(raw.v[i])})

\* C1 amended: for a top-level sequence filter_public returns the
\* order-preserving sub-sequence of exactly the elements that are keyed mappings
\* whose "private" entry is absent or falsy; an element whose "private" is a
\* truthy non-boolean ("yes", 1) is dropped.
C1_ListFilter ==
    (FilterReturned /\ raw.t = "list") =>
        /\ payload.t = "list"
        /\ IsSubsequenceAt(payload.v, raw.v,
               {i \in 1..Len(raw.v) : PublicUnlessTruthy(raw.v[i])})

\* a list whose first element has "private": "yes" and whose second has
\* "private": 0 has been filtered to the second element alone
C1_Witness ==
    /\ FilterReturned
    /\ raw = JList(<<JDict(<< <<"a", JNum(2)>>, <<"private", JStr("yes")>> >>),
                     JDict(<< <<"a", JNum(2)>>, <<"private", JNum(0)>> >>)>>)
    /\ payload = JList(<<JDict(<< <<"a", JNum(2)>>, <<"private", JNum(0)>> >>)>>)

\* C2 as stated: for a top-level keyed mapping filter_public returns the mapping
\* of exactly the pairs whose value is a keyed mapping whose "private" entry is
\* absent or anything but the boolean true, values unchanged, no key added.
C2_AsStated ==
    (FilterReturned /\ raw.t = "dict") =>
        /\ payload.t = "dict"
        /\ Cardinality(KeySet(payload)) = Len(payload.v)
        /\ PairSet(payload) = {p \in PairSet(raw) : PublicUnlessTrue(p[2])}

\* C2 amended: for a top-level keyed mapping filter_public returns the mapping
\* of exactly the pairs whose value is a keyed mapping whose "private" entry is
\* absent or falsy, values unchanged, no key added.
C2_MapFilter ==
    (FilterReturned /\ raw.t = "dict") =>
        /\ payload.t = "dict"
        /\ Cardinality(KeySet(payload)) = Len(payload.v)
        /\ PairSet(payload) = {p \in PairSet(raw) : PublicUnlessTruthy(p[2])}

\* a map with "x" private by 1 and "y" carrying "private": false has been
\* filtered to "y" alone
C2_Witness ==
    /\ FilterReturned
    /\ raw = JDict(<< <<"x", JDict(<< <<"a", JNum(2)>>, <<"private", JNum(1)>> >>)>>,
                      <<"y", JDict(<< <<"a", JNum(2)>>, <<"private", JBool(FALSE)>> >>)>> >>)
    /\ payload = JDict(<< <<"y", JDict(<< <<"a", JNum(2)>>, <<"private", JBool(FALSE)>> >>)>> >>)

\* the keys k of the response with response[k] a keyed mapping whose "valid"
\* is exactly the boolean true
KeysMarkedValid(response) ==
    {k \in KeySet(response) :
        LET val == ValueAt(response, k)
        IN  val.t = "dict" /\ HasKey(val, "valid") /\ IsBooleanTrue(ValueAt(val, "valid"))}

\* C3: extract_valid_keys returns, without failing, the strictly ascending
\* (lexicographic, so duplicate-free) sequence of exactly the keys whose value is
\* a keyed mapping with "valid" exactly the boolean true; nothing matching gives
\* the empty sequence.
C3_ValidKeys ==
    pc = "print" =>
        /\ raised = "none"
        /\ \A i, j \in 1..Len(valid_keys) : i < j => str_lt(valid_keys[i], valid_keys[j])
        /\ {valid_keys[i] : i \in 1..Len(valid_keys)} = KeysMarkedValid(resp_map)
        /\ (KeysMarkedValid(resp_map) = {} => valid_keys = <<>>)

\* a response listing k2, k10 (both valid) and K3 ("valid": 1) gave K3's
\* exclusion and the order k10, k2
C3_Witness ==
    /\ pc = "print"
    /\ resp_map = JDict(<< <<"k2", JDict(<< <<"valid", JBool(TRUE)>> >>)>>,
                           <<"K3", JDict(<< <<"valid", JNum(1)>> >>)>>,
                           <<"k10", JDict(<< <<"valid", JBool(TRUE)>> >>)>> >>)
    /\ valid_keys = <<"k10", "k2">>

AllStages == <<"Loader", "Filter", "Poster", "Key extractor">>

SourceUnusable == source.state # "json"

\* C4: whenever the source cannot be opened or read (missing, permission
\* denied, a directory, undecodable bytes) or is not well-formed JSON, load_json
\* fails with an Input error and main ends with exit status 2, never 1.
C4_InputErrorExit2 ==
    (pc = "done" /\ SourceUnusable) => (raised = "InputError" /\ rc = 2)

TopLevelScalar(x) == x.t \in {"null", "bool", "num", "str"}

\* C5: a parsed input whose top level is null, a boolean, a number or a string
\* makes filter_public fail with a Validation error; the run ends with exit
\* status 2 and no HTTP request is sent.
C5_ScalarRejected ==
    TopLevelScalar(raw) =>
        /\ pc \in {"filter", "done"}
        /\ posts = <<>>
        /\ http = NoAnswer
        /\ pc = "done" => (raised = "ValidationError" /\ rc = 2)

\* the bare number 42 was loaded and the run ended on the Validation error
C5_Witness ==
    /\ pc = "done"
    /\ raw = JNum(42)
    /\ raised = "ValidationError"
    /\ rc = 2
    /\ posts = <<>>

PostAnswered == http # NoAnswer

PostFailedWith(exc) == pc = "done" /\ raised = exc /\ resp_map = Unset

PostReturned(val) == pc # "done" /\ raised = "none" /\ resp_map = val

BodyIsMapping == http.wellformed /\ http.body.t = "dict"

\* C6 as stated: post_generate fails with an HTTP error when the request fails
\* at network level, the status is not 2xx, the body is not well-formed JSON, or
\* the parsed body is not a keyed mapping; otherwise it returns the parsed
\* mapping unchanged.
C6_AsStated ==
    (PostAnswered /\ stages = SubSeq(AllStages, 1, 3)) =>
        IF \/ http.kind # "response"
           \/ ~(200 <= http.status /\ http.status <= 299)
           \/ ~BodyIsMapping
        THEN PostFailedWith("HTTPRequestError")
        ELSE PostReturned(http.body)

\* C6 amended: post_generate fails with an HTTP error when the request fails at
\* network level, the status is a 4xx or 5xx error status, the body is not
\* well-formed JSON, or the parsed body is not a keyed mapping; otherwise (a
\* status below 400 with a JSON object body) it returns the parsed mapping
\* unchanged.
C6_PostOutcomes ==
    (PostAnswered /\ stages = SubSeq(AllStages, 1, 3)) =>
        IF \/ http.kind # "response"
           \/ (400 <= http.status /\ http.status <= 599)
           \/ ~BodyIsMapping
        THEN PostFailedWith("HTTPRequestError")
        ELSE PostReturned(http.body)

\* a 300 answer carrying a JSON object was returned as the response map
C6_Witness ==
    /\ pc = "extract"
    /\ http.kind = "response"
    /\ http.status = 300
    /\ BodyIsMapping
    /\ http.body # JDict(<<>>)
    /\ resp_map = http.body

C10_StageOrder ==
    /\ stages = SubSeq(AllStages, 1, Len(stages))
    /\ raised # "none" => (pc = "done" /\ ~ENABLED Next)
    /\ Len(posts) <= 1
    /\ posts # <<>> =>
        /\ Len(stages) >= 3
        /\ raw # Unset
        /\ payload # Unset
        /\ posts[1] = payload
    /\ stdout # <<>> => (posts # <<>> /\ resp_map # Unset /\ raised = "none")

\* a run that posted the filtered list once and printed the keys k1, k2
C10_Witness ==
    /\ pc = "done"
    /\ rc = 0
    /\ stages = AllStages
    /\ raw = JList(<<JDict(<< <<"a", JNum(1)>> >>),
                     JDict(<< <<"a", JNum(2)>>, <<"private", JBool(TRUE)>> >>)>>)
    /\ posts = <<JList(<<JDict(<< <<"a", JNum(1)>> >>)>>)>>
    /\ stdout = <<"k1", "k2">>

AsgNotSet == environ.ASG_NAME \in {PyNone, ""}

\* C8: with ASG_NAME unset or empty lambda_handler returns exactly
\* {"status": "error", "message": "ASG_NAME not set"}, creates no client and
\* attempts no remote call.
C8_AsgNotSet ==
    (AsgNotSet /\ invocations > 0) =>
        /\ lpc = "returned"
        /\ result = [status |-> "error", message |-> "ASG_NAME not set"]
        /\ clients = <<>>
        /\ calls = <<>>

\* the handler returned with ASG_NAME set to the empty string
C8_Witness ==
    /\ lpc = "returned"
    /\ environ.ASG_NAME = ""
    /\ result = [status |-> "error", message |-> "ASG_NAME not set"]

\* C9: every invocation makes at most one start_instance_refresh call and
\* returns a result: status "started", with the provider's refresh identifier
\* and raw response, exactly when that call returned normally, and "error" with
\* a message otherwise; a ClientError also carries the provider's error code.
C9_HandlerResult ==
    /\ Len(calls) <= 1
    /\ lpc = "returned" =>
        /\ result.status \in {"started", "error"}
        /\ (result.status = "started") <=> (calls # <<>> /\ outcome.kind = "returned")
        /\ result.status = "started" =>
            /\ DOMAIN result = {"status", "instance_refresh_id", "raw_response"}
            /\ result.raw_response = outcome.resp
            /\ \A i \in 1..Len(outcome.resp) :
                (outcome.resp[i][1] = "InstanceRefreshId" /\ outcome.resp[i][2] # "")
                    => result.instance_refresh_id = outcome.resp[i][2]
        /\ result.status = "error" => "message" \in DOMAIN result
        /\ outcome.kind = "ClientError" =>
            /\ result.status = "error"
            /\ "code" \in DOMAIN result
            /\ \A i \in 1..Len(outcome.error) : \A j \in 1..Len(outcome.error[i][2]) :
                (outcome.error[i][1] = "Error" /\ outcome.error[i][2][j][1] = "Code")
                    => result.code = outcome.error[i][2][j][2]

\* the provider rejected the call with InstanceRefreshInProgress and the
\* handler returned that code
C9_Witness ==
    /\ lpc = "returned"
    /\ Len(calls) = 1
    /\ outcome.kind = "ClientError"
    /\ result.status = "error"
    /\ result.code = "InstanceRefreshInProgress"

=============================================================================
